---- MODULE Spec2Model ----
(***************************************************************************)
(* SparksBot (src/main.py): a Telegram bot that collects a "spark" (a      *)
(* question, a description and an optional image) from a user over three   *)
(* messages and forwards it to one admin chat.                             *)
(*                                                                         *)
(* The program's state is the two module-level dictionaries user_states    *)
(* and user_data.  Every handler is one action: it runs from its first      *)
(* statement to its return or to the exception that leaves it.  The calls  *)
(* a handler makes on the Telegram API (bot.send_message, bot.send_photo)   *)
(* and on requests.get can fail; their outcomes are chosen by the           *)
(* environment.  The calls of the handler that ran last, and how it ended,  *)
(* are kept in the variable last.  This is the specification Spec.         *)
(*                                                                         *)
(* SpecThreaded is the same program with its handlers run statement by     *)
(* statement on the two worker threads of the bot; workers holds what each *)
(* thread is running and round the dictionaries at the last dispatch.      *)
(***************************************************************************)
EXTENDS Integers, Sequences, FiniteSets, TLC

VARIABLES user_states, user_data, last, workers, round

vars == <<user_states, user_data, last, workers, round>>

(* ---------------------------------------------------------------------- *)
(* Constants of the program                                                *)
(* ---------------------------------------------------------------------- *)

STATE_QUESTION == 1
STATE_DESCRIPTION == 2
STATE_IMAGE == 3

\* int(os.environ.get("ADMIN_USER_ID")): the chat every spark is forwarded to.
ADMIN_USER_ID == 900

(* ---------------------------------------------------------------------- *)
(* Texts.  A text is a sequence of one-character strings, so that          *)
(* str.lower, str.startswith and list membership are computed.             *)
(* ---------------------------------------------------------------------- *)

LowerTable ==
    [c \in {"A","B","C","D","E","F","G","H","I","J","K","L","M",
            "N","O","P","Q","R","S","T","U","V","W","X","Y","Z"} |->
        CASE c = "A" -> "a" [] c = "B" -> "b" [] c = "C" -> "c" [] c = "D" -> "d"
          [] c = "E" -> "e" [] c = "F" -> "f" [] c = "G" -> "g" [] c = "H" -> "h"
          [] c = "I" -> "i" [] c = "J" -> "j" [] c = "K" -> "k" [] c = "L" -> "l"
          [] c = "M" -> "m" [] c = "N" -> "n" [] c = "O" -> "o" [] c = "P" -> "p"
          [] c = "Q" -> "q" [] c = "R" -> "r" [] c = "S" -> "s" [] c = "T" -> "t"
          [] c = "U" -> "u" [] c = "V" -> "v" [] c = "W" -> "w" [] c = "X" -> "x"
          [] c = "Y" -> "y" [] c = "Z" -> "z"]

\* str.lower()
lower(text) ==
    [i \in 1..Len(text) |->
        IF text[i] \in DOMAIN LowerTable THEN LowerTable[text[i]] ELSE text[i]]

\* str.startswith(prefix)
startswith(text, prefix) ==
    /\ Len(text) >= Len(prefix)
    /\ SubSeq(text, 1, Len(prefix)) = prefix

\* ['no', 'none', 'n']
SkipKeywords == {<<"n","o">>, <<"n","o","n","e">>, <<"n">>}

\* ('http://', 'https://')
UrlPrefixes == {<<"h","t","t","p",":","/","/">>, <<"h","t","t","p","s",":","/","/">>}

(* ---------------------------------------------------------------------- *)
(* Inputs: the users, the texts and the photos the environment sends       *)
(* ---------------------------------------------------------------------- *)

Users == {1, 2}

\* telebot's message.from_user; "" stands for None
from_user(u) ==
    IF u = 1
    THEN [id |-> u, first_name |-> "Ann", last_name |-> "Lee", username |-> "annlee"]
    ELSE [id |-> u, first_name |-> "Bo", last_name |-> "", username |-> ""]

Text_no == <<"n","o">>
Text_NO == <<"N","O">>
Text_None == <<"N","o","n","e">>
Text_n == <<"n">>
Text_url == <<"H","t","t","p","s",":","/","/","t",".","c","o","/","A">>
Text_free == <<"W","i","l","l"," ","X","?">>

InputTexts == {Text_no, Text_NO, Text_None, Text_n, Text_url, Text_free}

Cmd_start == <<"/","s","t","a","r","t">>
Cmd_help == <<"/","h","e","l","p">>
Cmd_sendspark == <<"/","s","e","n","d","s","p","a","r","k">>
Cmd_cancel == <<"/","c","a","n","c","e","l">>

Commands == {Cmd_start, Cmd_help, Cmd_sendspark, Cmd_cancel}

\* message.photo: the sizes of one photo, the largest last
InputPhotos == {<<[file_id |-> <<"photo-small">>], [file_id |-> <<"photo-large">>]>>}

\* A private chat: message.chat.id is the sender's id.
TextMessage(u, text) ==
    [from_user |-> from_user(u), chat |-> [id |-> u],
     content_type |-> "text", text |-> text, photo |-> <<>>]

PhotoMessage(u, photo) ==
    [from_user |-> from_user(u), chat |-> [id |-> u],
     content_type |-> "photo", text |-> <<>>, photo |-> photo]

Messages ==
    {TextMessage(u, t) : u \in Users, t \in InputTexts \cup Commands}
        \cup {PhotoMessage(u, p) : u \in Users, p \in InputPhotos}

\* What the environment decides during one handler run: the result of
\* requests.get, and for the k-th call on the Telegram API whether it returns
\* (TRUE) or raises.  No handler makes more than three such calls, and a third
\* call is made only after a first that raised and a second that returned (the
\* except clause of finalize_question), so the third outcome is chosen only then.
Environments ==
    {env \in [fetch : {"status_200", "status_404", "raises"}, api : [1..3 -> BOOLEAN]] :
        env.api[3] \/ (~env.api[1] /\ env.api[2])}

\* The same for a handler that makes one call on the Telegram API and no download
ReplyEnvironments ==
    {env \in Environments : env.fetch = "status_200" /\ env.api[2] /\ env.api[3]}

(* ---------------------------------------------------------------------- *)
(* Dictionaries                                                            *)
(* ---------------------------------------------------------------------- *)

\* {}
EmptyDict == <<>>

\* d[k] = v
SetItem(d, k, v) == [x \in DOMAIN d \cup {k} |-> IF x = k THEN v ELSE d[x]]

\* del d[k]
DelItem(d, k) == [x \in DOMAIN d \ {k} |-> d[x]]

\* d.get(k, default)
Get(d, k, default) == IF k \in DOMAIN d THEN d[k] ELSE default

(* ---------------------------------------------------------------------- *)
(* A handler run: the dictionaries as the handler has left them so far,    *)
(* the Telegram API calls it has made, and "returned" or the exception     *)
(* that has ended it; fetch is the result of the download, "none" when     *)
(* there was none.  A statement acts only while the run goes on.           *)
(* ---------------------------------------------------------------------- *)

Run(states, data) ==
    [user_states |-> states, user_data |-> data, calls |-> <<>>, fetch |-> "none",
     outcome |-> "returned"]

\* One call on the Telegram API: recorded, and raising if the environment says so.
bot_call(run, env, call) ==
    IF run.outcome # "returned"
    THEN run
    ELSE LET ok == env.api[Len(run.calls) + 1]
         IN  [run EXCEPT !.calls = Append(@, [call EXCEPT !.ok = ok]),
                         !.outcome = IF ok THEN "returned" ELSE "ApiException"]

\* a call that sends no photo
NoPhoto == [by |-> "none", of |-> <<>>]

\* bot.send_message(chat_id, text, reply_markup=markup)
send_message(run, env, chat_id, text, markup) ==
    bot_call(run, env,
             [method |-> "send_message", chat_id |-> chat_id, text |-> text,
              photo |-> NoPhoto, reply_markup |-> markup, ok |-> TRUE])

\* bot.send_photo(chat_id, photo, caption)
send_photo(run, env, chat_id, photo, caption) ==
    bot_call(run, env,
             [method |-> "send_photo", chat_id |-> chat_id, text |-> caption,
              photo |-> photo, reply_markup |-> <<>>, ok |-> TRUE])

\* ReplyKeyboardMarkup with the single button /sendspark
SparkKeyboard == <<Cmd_sendspark>>

\* no reply_markup argument
NoKeyboard == <<>>

(* ---------------------------------------------------------------------- *)
(* The texts the bot sends.  A sent text is a sequence of pieces: a fixed  *)
(* piece is one string, a text of the user contributes its characters.     *)
(* ---------------------------------------------------------------------- *)

welcome_message(user) ==
    <<"Hey ", user.first_name, ", welcome to Trepa Bot! [...] Use /sendspark to submit a *spark* [...]">>

help_text == <<"*Need help?* Here's how to use Trepa Bot: [...]">>

SparkPrompt == <<"Let's ignite a spark. What's your question or hypothesis? [...]">>

CancelText == <<"No worries - your spark submission has been cancelled. [...]">>

UseSendsparkText == <<"To submit a question, please use the /sendspark command.">>

UseSendsparkFirstText ==
    <<"To submit a question with an image, please use the /sendspark command first.">>

DescriptionPrompt == <<"Great question! Now give us a bit more context [...]">>

ImagePrompt == <<"Thanks for the background! [...] Drop the image link here (or upload a photo). If not, just type 'no'.">>

NotExpectingImageText ==
    <<"I wasn't expecting an image at this point. Please follow the prompts.">>

ConfirmationText == <<"Thanks! Your question has been submitted to Trepa HQ. [...]">>

NoQuestionProvided == <<"No question provided">>

NoDescriptionProvided == <<"No description provided">>

\* the f-string of finalize_question
admin_message_text(user, question_text, description_text) ==
    <<"NEW SPARK RECEIVED\n\nUser: ", user.first_name, " ",
      IF user.last_name # "" THEN " " \o user.last_name ELSE "",
      " (@", IF user.username # "" THEN user.username ELSE "no username", ")\n",
      "User ID: ", ToString(user.id), "\n\nQuestion: ">>
        \o question_text \o <<"\n\nDescription/Source: ">> \o description_text

AdditionalInfoLabel == "\n\nAdditional Info: "

ImageUrlLabel == "\n\nImage URL: "

(* ---------------------------------------------------------------------- *)
(* Statements on the two dictionaries                                      *)
(* ---------------------------------------------------------------------- *)

\* user_states[user_id] = state
set_state(run, user_id, state) ==
    IF run.outcome # "returned"
    THEN run
    ELSE [run EXCEPT !.user_states = SetItem(@, user_id, state)]

\* A variant of reset_data that keeps the dictionary of a user who has one
\* (user_data.setdefault(user_id, {}))
reset_data_setdefault(run, user_id) ==
    IF run.outcome # "returned"
    THEN run
    ELSE IF user_id \in DOMAIN run.user_data
         THEN run
         ELSE [run EXCEPT !.user_data = SetItem(@, user_id, EmptyDict)]

\* user_data[user_id] = {}
reset_data(run, user_id) ==
    IF run.outcome # "returned"
    THEN run
    ELSE [run EXCEPT !.user_data = SetItem(@, user_id, EmptyDict)]

\* user_data[user_id][key] = value
set_field(run, user_id, key, value) ==
    IF run.outcome # "returned"
    THEN run
    ELSE IF user_id \notin DOMAIN run.user_data
         THEN [run EXCEPT !.outcome = "KeyError"]
         ELSE [run EXCEPT !.user_data[user_id] = SetItem(@, key, value)]

\* A variant of discard_state without the membership test
\* (del user_states[user_id])
discard_state_unguarded(run, user_id) ==
    IF run.outcome # "returned"
    THEN run
    ELSE IF user_id \in DOMAIN run.user_states
         THEN [run EXCEPT !.user_states = DelItem(@, user_id)]
         ELSE [run EXCEPT !.outcome = "KeyError"]

\* A variant of discard_state that empties the dictionary
\* (user_states.clear())
discard_state_clearing(run, user_id) ==
    IF run.outcome # "returned"
    THEN run
    ELSE [run EXCEPT !.user_states = EmptyDict]

\* if user_id in user_states: del user_states[user_id]
discard_state(run, user_id) ==
    IF run.outcome # "returned"
    THEN run
    ELSE IF user_id \in DOMAIN run.user_states
         THEN [run EXCEPT !.user_states = DelItem(@, user_id)]
         ELSE run

\* A variant of discard_data that forgets to delete
discard_data_forgotten(run, user_id) == run

\* if user_id in user_data: del user_data[user_id]
discard_data(run, user_id) ==
    IF run.outcome # "returned"
    THEN run
    ELSE IF user_id \in DOMAIN run.user_data
         THEN [run EXCEPT !.user_data = DelItem(@, user_id)]
         ELSE run

(* ---------------------------------------------------------------------- *)
(* The handlers                                                            *)
(* ---------------------------------------------------------------------- *)

\* A variant of start that also ends the user's submission
start_resetting(run, message, env) ==
    LET user_id == message.from_user.id
        r1 == discard_state(run, user_id)
        r2 == discard_data(r1, user_id)
    IN  send_message(r2, env, message.chat.id,
                     welcome_message(message.from_user), SparkKeyboard)

start(run, message, env) ==
    send_message(run, env, message.chat.id,
                 welcome_message(message.from_user), SparkKeyboard)

help_command(run, message, env) ==
    send_message(run, env, message.chat.id, help_text, NoKeyboard)

send_spark(run, message, env) ==
    LET user_id == message.from_user.id
        r1 == set_state(run, user_id, STATE_QUESTION)
        r2 == reset_data(r1, user_id)
    IN  send_message(r2, env, message.chat.id, SparkPrompt, NoKeyboard)

cancel(run, message, env) ==
    LET user_id == message.from_user.id
        r1 == discard_state(run, user_id)
        r2 == discard_data(r1, user_id)
    IN  send_message(r2, env, message.chat.id, CancelText, SparkKeyboard)

\* photo=user_data[user_id]['image_id']: a photo Telegram already holds
ByFileId(file_id) == [by |-> "file_id", of |-> file_id]

\* photo=BytesIO(response.content): the bytes downloaded from image_url
ByContent(image_url) == [by |-> "content", of |-> image_url]

\* A variant of notify_with_url whose text send is under finally instead of
\* except: it follows the try statement however that has ended
notify_with_url_finally(run, env, admin_message) ==
    LET response == [run EXCEPT !.fetch = env.fetch]
        tried ==
            IF env.fetch = "raises"
            THEN [response EXCEPT !.outcome = "RequestException"]
            ELSE IF env.fetch = "status_200"
                 THEN send_photo(response, env, ADMIN_USER_ID,
                                 ByContent(admin_message.image_url), admin_message.text)
                 ELSE send_message(response, env, ADMIN_USER_ID,
                                   admin_message.text, NoKeyboard)
    IN  send_message([tried EXCEPT !.outcome = "returned"], env,
                     ADMIN_USER_ID, admin_message.text, NoKeyboard)

\* A variant of notify_with_url without the test of response.status_code
notify_with_url_unchecked(run, env, admin_message) ==
    LET response == [run EXCEPT !.fetch = env.fetch]
        tried ==
            IF env.fetch = "raises"
            THEN [response EXCEPT !.outcome = "RequestException"]
            ELSE send_photo(response, env, ADMIN_USER_ID,
                            ByContent(admin_message.image_url), admin_message.text)
    IN  IF tried.outcome # "returned"
        THEN send_message([tried EXCEPT !.outcome = "returned"], env,
                          ADMIN_USER_ID, admin_message.text, NoKeyboard)
        ELSE tried

\* The try statement of the image_url branch: the download and the send that
\* depends on its status; whatever either raises is caught, and the except
\* clause sends the text alone.
notify_with_url(run, env, admin_message) ==
    LET response == [run EXCEPT !.fetch = env.fetch]
        tried ==
            IF env.fetch = "raises"
            THEN [response EXCEPT !.outcome = "RequestException"]
            ELSE IF env.fetch = "status_200"
                 THEN send_photo(response, env, ADMIN_USER_ID,
                                 ByContent(admin_message.image_url), admin_message.text)
                 ELSE send_message(response, env, ADMIN_USER_ID,
                                   admin_message.text, NoKeyboard)
    IN  IF tried.outcome # "returned"
        THEN send_message([tried EXCEPT !.outcome = "returned"], env,
                          ADMIN_USER_ID, admin_message.text, NoKeyboard)
        ELSE tried

\* A variant of finalize_question that removes the session before it notifies
\* the admin (lines 273-276 moved before line 227)
finalize_question_cleanup_first(run, message, user_id, has_image, has_additional_info, env) ==
    IF run.outcome # "returned"
    THEN run
    ELSE IF user_id \notin DOMAIN run.user_data
    THEN [run EXCEPT !.outcome = "KeyError"]
    ELSE
    LET data == run.user_data[user_id]
        question_text == Get(data, "question", NoQuestionProvided)
        description_text == Get(data, "description", NoDescriptionProvided)
        admin_message ==
            admin_message_text(message.from_user, question_text, description_text)
        with_info ==
            IF has_additional_info /\ "additional_info" \in DOMAIN data
            THEN admin_message \o <<AdditionalInfoLabel>> \o data["additional_info"]
            ELSE admin_message
        cleaned == discard_data(discard_state(run, user_id), user_id)
        notified ==
            IF "image_id" \in DOMAIN data
            THEN send_photo(cleaned, env, ADMIN_USER_ID, ByFileId(data["image_id"]), with_info)
            ELSE IF "image_url" \in DOMAIN data
                 THEN notify_with_url(cleaned, env,
                        [image_url |-> data["image_url"],
                         text |-> with_info \o <<ImageUrlLabel>> \o data["image_url"]])
                 ELSE send_message(cleaned, env, ADMIN_USER_ID, with_info, NoKeyboard)
    IN  send_message(notified, env, message.chat.id, ConfirmationText, SparkKeyboard)

finalize_question(run, message, user_id, has_image, has_additional_info, env) ==
    IF run.outcome # "returned"
    THEN run
    ELSE IF user_id \notin DOMAIN run.user_data
    THEN [run EXCEPT !.outcome = "KeyError"]
    ELSE
    LET data == run.user_data[user_id]
        question_text == Get(data, "question", NoQuestionProvided)
        description_text == Get(data, "description", NoDescriptionProvided)
        admin_message ==
            admin_message_text(message.from_user, question_text, description_text)
        with_info ==
            IF has_additional_info /\ "additional_info" \in DOMAIN data
            THEN admin_message \o <<AdditionalInfoLabel>> \o data["additional_info"]
            ELSE admin_message
        notified ==
            IF "image_id" \in DOMAIN data
            THEN send_photo(run, env, ADMIN_USER_ID, ByFileId(data["image_id"]), with_info)
            ELSE IF "image_url" \in DOMAIN data
                 THEN notify_with_url(run, env,
                        [image_url |-> data["image_url"],
                         text |-> with_info \o <<ImageUrlLabel>> \o data["image_url"]])
                 ELSE send_message(run, env, ADMIN_USER_ID, with_info, NoKeyboard)
        confirmed ==
            send_message(notified, env, message.chat.id, ConfirmationText, SparkKeyboard)
        r1 == discard_state(confirmed, user_id)
    IN  discard_data(r1, user_id)

\* text in ['no', 'none', 'n']
is_skip(text) == text \in SkipKeywords

\* text.startswith(('http://', 'https://'))
is_url(text) == \E prefix \in UrlPrefixes : startswith(text, prefix)

\* The branch of handle_messages for STATE_IMAGE
image_reply(run, message, user_id, env) ==
    LET text == lower(message.text)
    IN  IF is_skip(text)
        THEN finalize_question(run, message, user_id, FALSE, FALSE, env)
        ELSE IF is_url(text)
             THEN finalize_question(
                      set_field(run, user_id, "image_url", message.text),
                      message, user_id, TRUE, FALSE, env)
             ELSE finalize_question(
                      set_field(run, user_id, "additional_info", message.text),
                      message, user_id, FALSE, TRUE, env)

\* A variant of handle_messages that asks for the image right after the question
\* (user_states[user_id] = STATE_IMAGE in the branch of STATE_QUESTION)
handle_messages_skipping(run, message, env) ==
    LET user_id == message.from_user.id
    IN  IF user_id \notin DOMAIN run.user_states
        THEN send_message(run, env, message.chat.id, UseSendsparkText, SparkKeyboard)
        ELSE LET state == run.user_states[user_id]
             IN  IF state = STATE_QUESTION
                 THEN LET r1 == set_field(run, user_id, "question", message.text)
                          r2 == set_state(r1, user_id, STATE_IMAGE)
                      IN  send_message(r2, env, message.chat.id, ImagePrompt, NoKeyboard)
                 ELSE IF state = STATE_DESCRIPTION
                 THEN LET r1 == set_field(run, user_id, "description", message.text)
                          r2 == set_state(r1, user_id, STATE_IMAGE)
                      IN  send_message(r2, env, message.chat.id, ImagePrompt, NoKeyboard)
                 ELSE IF state = STATE_IMAGE
                 THEN image_reply(run, message, user_id, env)
                 ELSE run

handle_messages(run, message, env) ==
    LET user_id == message.from_user.id
    IN  IF user_id \notin DOMAIN run.user_states
        THEN send_message(run, env, message.chat.id, UseSendsparkText, SparkKeyboard)
        ELSE LET state == run.user_states[user_id]
             IN  IF state = STATE_QUESTION
                 THEN LET r1 == set_field(run, user_id, "question", message.text)
                          r2 == set_state(r1, user_id, STATE_DESCRIPTION)
                      IN  send_message(r2, env, message.chat.id, DescriptionPrompt, NoKeyboard)
                 ELSE IF state = STATE_DESCRIPTION
                 THEN LET r1 == set_field(run, user_id, "description", message.text)
                          r2 == set_state(r1, user_id, STATE_IMAGE)
                      IN  send_message(r2, env, message.chat.id, ImagePrompt, NoKeyboard)
                 ELSE IF state = STATE_IMAGE
                 THEN image_reply(run, message, user_id, env)
                 ELSE run

\* A variant of handle_photo without the test for a user who has no session
\* (state = user_states.get(user_id))
handle_photo_without_session_test(run, message, env) ==
    LET user_id == message.from_user.id
        state == Get(run.user_states, user_id, 0)
    IN  IF state = STATE_IMAGE
        THEN finalize_question(
                 set_field(run, user_id, "image_id",
                           message.photo[Len(message.photo)].file_id),
                 message, user_id, TRUE, FALSE, env)
        ELSE send_message(run, env, message.chat.id, NotExpectingImageText, NoKeyboard)

\* A variant of handle_photo that takes the photo in any state but STATE_QUESTION
\* (if state != STATE_QUESTION)
handle_photo_early(run, message, env) ==
    LET user_id == message.from_user.id
    IN  IF user_id \notin DOMAIN run.user_states
        THEN send_message(run, env, message.chat.id, UseSendsparkFirstText, SparkKeyboard)
        ELSE IF run.user_states[user_id] # STATE_QUESTION
             THEN finalize_question(
                      set_field(run, user_id, "image_id",
                                message.photo[Len(message.photo)].file_id),
                      message, user_id, TRUE, FALSE, env)
             ELSE send_message(run, env, message.chat.id,
                               NotExpectingImageText, NoKeyboard)

handle_photo(run, message, env) ==
    LET user_id == message.from_user.id
    IN  IF user_id \notin DOMAIN run.user_states
        THEN send_message(run, env, message.chat.id, UseSendsparkFirstText, SparkKeyboard)
        ELSE LET state == run.user_states[user_id]
             IN  IF state = STATE_IMAGE
                 THEN finalize_question(
                          set_field(run, user_id, "image_id",
                                    message.photo[Len(message.photo)].file_id),
                          message, user_id, TRUE, FALSE, env)
                 ELSE send_message(run, env, message.chat.id,
                                   NotExpectingImageText, NoKeyboard)

(* ---------------------------------------------------------------------- *)
(* Dispatch: telebot tries the handlers in the order of their registration *)
(* and runs the first whose filter accepts the message.  A commands filter *)
(* and the catch-all of handle_messages accept text messages only.         *)
(* ---------------------------------------------------------------------- *)

handler_of(message) ==
    IF message.content_type = "text" /\ message.text = Cmd_start THEN "start"
    ELSE IF message.content_type = "text" /\ message.text = Cmd_help THEN "help_command"
    ELSE IF message.content_type = "text" /\ message.text = Cmd_sendspark THEN "send_spark"
    ELSE IF message.content_type = "text" /\ message.text = Cmd_cancel THEN "cancel"
    ELSE IF message.content_type = "text" THEN "handle_messages"
    ELSE IF message.content_type = "photo" THEN "handle_photo"
    ELSE "none"

(* ---------------------------------------------------------------------- *)
(* The state machine                                                       *)
(* ---------------------------------------------------------------------- *)

\* The number of messages delivered in one behaviour
MaxEvents == 5

NoMessage == [from_user |-> from_user(1), chat |-> [id |-> 1],
              content_type |-> "none", text |-> <<>>, photo |-> <<>>]

\* telebot's pool of worker threads (num_threads=2)
Workers == {1, 2}

\* A worker thread that runs no handler
IdleWorker == [handler |-> "none", message |-> NoMessage, pc |-> 0, outcome |-> "returned"]

\* The dictionaries are empty and no handler runs.
Init ==
    /\ user_states = EmptyDict
    /\ user_data = EmptyDict
    /\ last = [handler |-> "none", message |-> NoMessage, calls |-> <<>>,
               fetch |-> "none", outcome |-> "returned", before |-> EmptyDict,
               count |-> 0]
    /\ workers = [w \in Workers |-> IdleWorker]
    /\ round = [user_states |-> EmptyDict, user_data |-> EmptyDict, count |-> 0]

\* The session of one user: what the two dictionaries hold under user_id
session(states, data, user_id) ==
    LET held == {k \in {"state", "data"} :
                    IF k = "state" THEN user_id \in DOMAIN states
                                   ELSE user_id \in DOMAIN data}
    IN  [k \in held |-> IF k = "state" THEN states[user_id] ELSE data[user_id]]

\* The handler has run on message and has ended as run says.
Deliver(handler, message, run) ==
    /\ last.count < MaxEvents
    /\ user_states' = run.user_states
    /\ user_data' = run.user_data
    /\ last' = [handler |-> handler, message |-> message, calls |-> run.calls,
                fetch |-> run.fetch, outcome |-> run.outcome,
                before |-> session(user_states, user_data, message.from_user.id),
                count |-> last.count + 1]
    /\ UNCHANGED <<workers, round>>

Start ==
    \E message \in Messages, env \in ReplyEnvironments :
        /\ handler_of(message) = "start"
        /\ Deliver("start", message, start(Run(user_states, user_data), message, env))

Help ==
    \E message \in Messages, env \in ReplyEnvironments :
        /\ handler_of(message) = "help_command"
        /\ Deliver("help_command", message,
                   help_command(Run(user_states, user_data), message, env))

SendSpark ==
    \E message \in Messages, env \in ReplyEnvironments :
        /\ handler_of(message) = "send_spark"
        /\ Deliver("send_spark", message,
                   send_spark(Run(user_states, user_data), message, env))

Cancel ==
    \E message \in Messages, env \in ReplyEnvironments :
        /\ handler_of(message) = "cancel"
        /\ Deliver("cancel", message, cancel(Run(user_states, user_data), message, env))

HandleMessages ==
    \E message \in Messages, env \in Environments :
        /\ handler_of(message) = "handle_messages"
        /\ Deliver("handle_messages", message,
                   handle_messages(Run(user_states, user_data), message, env))

HandlePhoto ==
    \E message \in Messages, env \in Environments :
        /\ handler_of(message) = "handle_photo"
        /\ Deliver("handle_photo", message,
                   handle_photo(Run(user_states, user_data), message, env))

Next == Start \/ Help \/ SendSpark \/ Cancel \/ HandleMessages \/ HandlePhoto

Spec == Init /\ [][Next]_vars

(* ---------------------------------------------------------------------- *)
(* Concurrent dispatch.  telebot.TeleBot(TOKEN) is threaded by default: a  *)
(* handler is run by one of two worker threads, so two handlers can run at *)
(* the same time and their statements on user_states and user_data         *)
(* interleave; the program takes no lock.  Here a handler advances one     *)
(* statement at a time; pc is the source line of the statement the worker  *)
(* executes next, 0 when it executes none.  A statement is taken as atomic *)
(* (the interpreter switches threads between bytecodes, so it interleaves  *)
(* more finely still: every run here is a run of the program).  Every call *)
(* on the Telegram API returns, and the calls are not recorded.            *)
(* Messages are dispatched when both workers are idle, one at a time or    *)
(* two at once.                                                            *)
(* ---------------------------------------------------------------------- *)

\* The number of dispatches in one behaviour
MaxRounds == 4

\* The user whose messages are dispatched concurrently
RaceUser == 1

RaceMessages ==
    {TextMessage(RaceUser, t) :
        t \in {Cmd_sendspark, Cmd_cancel, Text_free, Text_n, Text_url}}

\* The first statement of a handler that touches the dictionaries
first_line(handler) ==
    CASE handler = "send_spark" -> 86
      [] handler = "cancel" -> 101
      [] handler = "handle_messages" -> 123

\* A worker thread that has been given message
Working(message) ==
    [handler |-> handler_of(message), message |-> message,
     pc |-> first_line(handler_of(message)), outcome |-> "returned"]

AllIdle == \A w \in Workers : workers[w].handler = "none"

\* One message arrives and a worker runs its handler.
DispatchOne ==
    \E message \in RaceMessages :
        /\ AllIdle
        /\ round.count < MaxRounds
        /\ workers' = [workers EXCEPT ![1] = Working(message)]
        /\ round' = [user_states |-> user_states, user_data |-> user_data,
                     count |-> round.count + 1]
        /\ UNCHANGED <<user_states, user_data, last>>

\* Two messages of the user arrive together and each worker runs one handler.
DispatchPair ==
    \E m1 \in RaceMessages, m2 \in RaceMessages :
        /\ AllIdle
        /\ round.count < MaxRounds
        /\ workers' = [workers EXCEPT ![1] = Working(m1), ![2] = Working(m2)]
        /\ round' = [user_states |-> user_states, user_data |-> user_data,
                     count |-> round.count + 1]
        /\ UNCHANGED <<user_states, user_data, last>>

\* The worker goes on to the statement at line pc, leaving the dictionaries as
\* states and data.
Proceed(w, states, data, pc) ==
    /\ user_states' = states
    /\ user_data' = data
    /\ workers' = [workers EXCEPT ![w].pc = pc]

\* The handler returns, leaving the dictionaries as states and data.
Return(w, states, data) == Proceed(w, states, data, 0)

\* The statement raises KeyError, which ends the handler.
RaiseKeyError(w) ==
    /\ UNCHANGED <<user_states, user_data>>
    /\ workers' = [workers EXCEPT ![w].pc = 0, ![w].outcome = "KeyError"]

\* d[user_id][key] = value
StoreField(w, key, value, pc) ==
    LET user_id == workers[w].message.from_user.id
    IN  IF user_id \in DOMAIN user_data
        THEN Proceed(w, user_states,
                     [user_data EXCEPT ![user_id] = SetItem(@, key, value)], pc)
        ELSE RaiseKeyError(w)

SendSparkStep(w) ==
    LET user_id == workers[w].message.from_user.id
        pc == workers[w].pc
    IN  /\ workers[w].handler = "send_spark"
        /\ pc # 0
        /\ CASE pc = 86 ->
                  Proceed(w, SetItem(user_states, user_id, STATE_QUESTION), user_data, 87)
             [] pc = 87 ->
                  Proceed(w, user_states, SetItem(user_data, user_id, EmptyDict), 89)
             [] pc = 89 -> Return(w, user_states, user_data)
        /\ UNCHANGED <<last, round>>

CancelStep(w) ==
    LET user_id == workers[w].message.from_user.id
        pc == workers[w].pc
    IN  /\ workers[w].handler = "cancel"
        /\ pc # 0
        /\ CASE pc = 101 ->
                  Proceed(w, user_states, user_data,
                          IF user_id \in DOMAIN user_states THEN 102 ELSE 103)
             [] pc = 102 ->
                  IF user_id \in DOMAIN user_states
                  THEN Proceed(w, DelItem(user_states, user_id), user_data, 103)
                  ELSE RaiseKeyError(w)
             [] pc = 103 ->
                  Proceed(w, user_states, user_data,
                          IF user_id \in DOMAIN user_data THEN 104 ELSE 110)
             [] pc = 104 ->
                  IF user_id \in DOMAIN user_data
                  THEN Proceed(w, user_states, DelItem(user_data, user_id), 110)
                  ELSE RaiseKeyError(w)
             [] pc = 110 -> Return(w, user_states, user_data)
        /\ UNCHANGED <<last, round>>

\* The lines of handle_messages that a worker can be at
HandleMessagesLines == {123, 128, 135, 139, 140, 142, 151, 152, 154, 169, 173}

\* The lines of finalize_question that a worker can be at
FinalizeLines == {209, 229, 265, 273, 274, 275, 276}

\* Where handle_messages goes after state = user_states[user_id]
branch_of(state, text) ==
    IF state = STATE_QUESTION THEN 139
    ELSE IF state = STATE_DESCRIPTION THEN 151
    ELSE IF is_skip(lower(text)) THEN 209
    ELSE IF is_url(lower(text)) THEN 169
    ELSE 173

HandleMessagesStep(w) ==
    LET user_id == workers[w].message.from_user.id
        text == workers[w].message.text
        pc == workers[w].pc
    IN  /\ workers[w].handler = "handle_messages"
        /\ pc \in HandleMessagesLines
        /\ CASE pc = 123 ->
                  Proceed(w, user_states, user_data,
                          IF user_id \notin DOMAIN user_states THEN 128 ELSE 135)
             [] pc = 128 -> Return(w, user_states, user_data)
             [] pc = 135 ->
                  IF user_id \in DOMAIN user_states
                  THEN Proceed(w, user_states, user_data,
                               branch_of(user_states[user_id], text))
                  ELSE RaiseKeyError(w)
             [] pc = 139 -> StoreField(w, "question", text, 140)
             [] pc = 140 ->
                  Proceed(w, SetItem(user_states, user_id, STATE_DESCRIPTION),
                          user_data, 142)
             [] pc = 142 -> Return(w, user_states, user_data)
             [] pc = 151 -> StoreField(w, "description", text, 152)
             [] pc = 152 ->
                  Proceed(w, SetItem(user_states, user_id, STATE_IMAGE), user_data, 154)
             [] pc = 154 -> Return(w, user_states, user_data)
             [] pc = 169 -> StoreField(w, "image_url", text, 209)
             [] pc = 173 -> StoreField(w, "additional_info", text, 209)
        /\ UNCHANGED <<last, round>>

\* finalize_question, called by handle_messages.  Line 209 stands for all its
\* reads of user_data[user_id] (lines 209 to 236), none of which follows a
\* call; line 229 for its calls to the admin chat (lines 229 to 258).
FinalizeStep(w) ==
    LET user_id == workers[w].message.from_user.id
        pc == workers[w].pc
    IN  /\ workers[w].handler = "handle_messages"
        /\ pc \in FinalizeLines
        /\ CASE pc = 209 ->
                  IF user_id \in DOMAIN user_data
                  THEN Proceed(w, user_states, user_data, 229)
                  ELSE RaiseKeyError(w)
             [] pc = 229 -> Proceed(w, user_states, user_data, 265)
             [] pc = 265 -> Proceed(w, user_states, user_data, 273)
             [] pc = 273 ->
                  Proceed(w, user_states, user_data,
                          IF user_id \in DOMAIN user_states THEN 274 ELSE 275)
             [] pc = 274 ->
                  IF user_id \in DOMAIN user_states
                  THEN Proceed(w, DelItem(user_states, user_id), user_data, 275)
                  ELSE RaiseKeyError(w)
             [] pc = 275 ->
                  IF user_id \in DOMAIN user_data
                  THEN Proceed(w, user_states, user_data, 276)
                  ELSE Return(w, user_states, user_data)
             [] pc = 276 ->
                  IF user_id \in DOMAIN user_data
                  THEN Return(w, user_states, DelItem(user_data, user_id))
                  ELSE RaiseKeyError(w)
        /\ UNCHANGED <<last, round>>

\* Every handler that was dispatched has ended.
Settled ==
    /\ ~AllIdle
    /\ \A w \in Workers : workers[w].pc = 0

\* The workers become idle again.
Collect ==
    /\ Settled
    /\ workers' = [w \in Workers |-> IdleWorker]
    /\ UNCHANGED <<user_states, user_data, last, round>>

NextThreaded ==
    \/ DispatchOne
    \/ DispatchPair
    \/ \E w \in Workers : SendSparkStep(w)
    \/ \E w \in Workers : CancelStep(w)
    \/ \E w \in Workers : HandleMessagesStep(w)
    \/ \E w \in Workers : FinalizeStep(w)
    \/ Collect

SpecThreaded == Init /\ [][NextThreaded]_vars

(* ---------------------------------------------------------------------- *)
(* Vocabulary of the properties: the handler run recorded in last          *)
(* ---------------------------------------------------------------------- *)

\* The user whose message the last handler run was about
Actor == last.message.from_user.id

\* That user's entry of user_states when the run began; 0 when there was none
StateBefore == IF "state" \in DOMAIN last.before THEN last.before.state ELSE 0

\* That user's entry of user_data when the run began; {} when there was none
DataBefore == IF "data" \in DOMAIN last.before THEN last.before.data ELSE EmptyDict

\* The user was in neither dictionary when the run began
NoSessionBefore == DOMAIN last.before = {}

\* The user is in neither dictionary
NoSession(u) == u \notin DOMAIN user_states /\ u \notin DOMAIN user_data

\* The last run was a handler of text or photo that found the user in STATE_IMAGE,
\* that is, a run that called finalize_question
Finalizing ==
    /\ last.handler \in {"handle_messages", "handle_photo"}
    /\ StateBefore = STATE_IMAGE

\* The calls of the last run that went to the admin chat, in order
AdminCalls == SelectSeq(last.calls, LAMBDA c : c.chat_id = ADMIN_USER_ID)

\* The calls of the last run that went to the chat of the message, in order
ReplyCalls == SelectSeq(last.calls, LAMBDA c : c.chat_id = last.message.chat.id)

\* pieces occurs in text as a contiguous run
Contains(text, pieces) ==
    \E i \in 1..(Len(text) - Len(pieces) + 1) :
        SubSeq(text, i, i + Len(pieces) - 1) = pieces

\* The last run made exactly one call: send_message of text to the chat of the message
RepliedOnlyWith(text) ==
    /\ Len(last.calls) = 1
    /\ last.calls[1].method = "send_message"
    /\ last.calls[1].chat_id = last.message.chat.id
    /\ last.calls[1].text = text

(* ---------------------------------------------------------------------- *)
(* C1                                                                      *)
(* ---------------------------------------------------------------------- *)

\* C1: in every submission the question is stored before the description (when
\* handle_messages stores the question no description is stored yet, and when it
\* stores the description the question is already stored), the description is
\* stored before the image is resolved (every run that calls finalize_question
\* finds question and description stored), and when finalize_question has
\* returned the user is in neither user_states nor user_data.
C1_SequenceThenNoSession ==
    /\ (last.handler = "handle_messages" /\ StateBefore = STATE_QUESTION)
          => /\ "description" \notin DOMAIN DataBefore
             /\ last.outcome # "KeyError"
             /\ "question" \in DOMAIN user_data[Actor]
             /\ user_states[Actor] = STATE_DESCRIPTION
    /\ (last.handler = "handle_messages" /\ StateBefore = STATE_DESCRIPTION)
          => /\ "question" \in DOMAIN DataBefore
             /\ DOMAIN DataBefore \cap {"image_id", "image_url", "additional_info"} = {}
             /\ "description" \in DOMAIN user_data[Actor]
             /\ user_states[Actor] = STATE_IMAGE
    /\ Finalizing => {"question", "description"} \subseteq DOMAIN DataBefore
    /\ (Finalizing /\ last.outcome = "returned") => NoSession(Actor)

\* A submission of three steps has been finalized with a photo.
C1_Witness ==
    /\ last.handler = "handle_photo"
    /\ StateBefore = STATE_IMAGE
    /\ last.outcome = "returned"
    /\ {"question", "description"} \subseteq DOMAIN DataBefore
    /\ NoSession(Actor)

(* ---------------------------------------------------------------------- *)
(* C2                                                                      *)
(* ---------------------------------------------------------------------- *)

\* The notification of the admin has failed: finalize_question has called the
\* admin chat and its last such call raised.
AdminNotificationFailed ==
    /\ Finalizing
    /\ AdminCalls # <<>>
    /\ ~AdminCalls[Len(AdminCalls)].ok

\* C2: if the notification of the admin fails in finalize_question, the
\* confirmation is still sent to the user and the user's session is still
\* removed.
C2_ConfirmAndCleanupDespiteFailure ==
    AdminNotificationFailed
        => /\ \E i \in 1..Len(ReplyCalls) : ReplyCalls[i].text = ConfirmationText
           /\ NoSession(Actor)

(* ---------------------------------------------------------------------- *)
(* C3                                                                      *)
(* ---------------------------------------------------------------------- *)

\* C3: after send_spark, whatever the user's session was before and whether or
\* not the reply could be sent, user_states holds STATE_QUESTION for the user
\* and user_data holds an empty dictionary: nothing of an earlier submission
\* survives.
C3_SendsparkStartsAfresh ==
    last.handler = "send_spark"
        => /\ Actor \in DOMAIN user_states
           /\ user_states[Actor] = STATE_QUESTION
           /\ Actor \in DOMAIN user_data
           /\ DOMAIN user_data[Actor] = {}

\* send_spark has run for a user whose session was stuck in STATE_IMAGE with a
\* question, a description and an image id stored.
C3_Witness ==
    /\ last.handler = "send_spark"
    /\ StateBefore = STATE_IMAGE
    /\ {"question", "description", "image_id"} \subseteq DOMAIN DataBefore
    /\ user_states[Actor] = STATE_QUESTION

(* ---------------------------------------------------------------------- *)
(* C4                                                                      *)
(* ---------------------------------------------------------------------- *)

\* C4: a text that is no command, or a photo, from a user who has no session is
\* answered by exactly one call, the prompt to use /sendspark sent to the
\* user's chat; the user still has no session afterwards and nothing is sent to
\* the admin.
C4_NoSessionPrompt ==
    (last.handler \in {"handle_messages", "handle_photo"} /\ NoSessionBefore)
        => /\ RepliedOnlyWith(IF last.handler = "handle_messages"
                              THEN UseSendsparkText
                              ELSE UseSendsparkFirstText)
           /\ NoSession(Actor)
           /\ AdminCalls = <<>>

\* A photo has arrived from a user who has no session.
C4_Witness ==
    /\ last.handler = "handle_photo"
    /\ last.message.content_type = "photo"
    /\ NoSessionBefore
    /\ Len(last.calls) = 1

(* ---------------------------------------------------------------------- *)
(* C5                                                                      *)
(* ---------------------------------------------------------------------- *)

\* C5: every run of cancel leaves the user in neither dictionary; it never ends
\* in a KeyError: it always gets to its one call, the cancellation text sent to
\* the user's chat, and ends as that call ends, with or without a session; and
\* a run of cancel for a user who has no session leaves both dictionaries as
\* they are.
C5_CancelIdempotent ==
    [][last'.handler = "cancel"
          => LET u == last'.message.from_user.id
             IN  /\ u \notin DOMAIN user_states'
                 /\ u \notin DOMAIN user_data'
                 /\ Len(last'.calls) = 1
                 /\ last'.calls[1].method = "send_message"
                 /\ last'.calls[1].chat_id = last'.message.chat.id
                 /\ last'.calls[1].text = CancelText
                 /\ last'.outcome = IF last'.calls[1].ok THEN "returned" ELSE "ApiException"
                 /\ (u \notin DOMAIN user_states /\ u \notin DOMAIN user_data)
                       => UNCHANGED <<user_states, user_data>>]_vars

\* cancel has run and returned for a user who had no session, while another
\* user has one.
C5_Witness ==
    /\ last.handler = "cancel"
    /\ NoSessionBefore
    /\ last.outcome = "returned"
    /\ last.calls[1].text = CancelText
    /\ user_states # EmptyDict

(* ---------------------------------------------------------------------- *)
(* C6                                                                      *)
(* ---------------------------------------------------------------------- *)

\* The image URL finalize_question reads in the last run: the text of the
\* message if handle_messages has just stored it, else the one stored before
UrlOfRun ==
    IF last.handler = "handle_messages" /\ ~is_skip(lower(last.message.text))
          /\ is_url(lower(last.message.text))
    THEN last.message.text
    ELSE DataBefore["image_url"]

\* C6: when the download of the stored image URL returns a status other than
\* 200 or raises, finalize_question sends the admin the notification as text
\* alone (send_message, no photo), with the URL in it, and the handler returns:
\* no exception leaves it.
C6_UrlFallbackNeverRaises ==
    (Finalizing /\ last.fetch \in {"status_404", "raises"})
        => /\ AdminCalls # <<>>
           /\ \A i \in 1..Len(AdminCalls) :
                 /\ AdminCalls[i].method = "send_message"
                 /\ AdminCalls[i].photo = NoPhoto
                 /\ Contains(AdminCalls[i].text, <<ImageUrlLabel>> \o UrlOfRun)
           /\ last.outcome = "returned"

(* ---------------------------------------------------------------------- *)
(* C7                                                                      *)
(* ---------------------------------------------------------------------- *)

\* C7: in STATE_IMAGE a text whose lowercased form is no, none or n makes
\* finalize_question notify the admin by text alone: every call to the admin is
\* a send_message without a photo, without an Image URL line and without an
\* Additional Info line, whatever the session went through before.
C7_SkipKeywordNoImage ==
    (last.handler = "handle_messages" /\ StateBefore = STATE_IMAGE
        /\ is_skip(lower(last.message.text)))
        => /\ AdminCalls # <<>>
           /\ \A i \in 1..Len(AdminCalls) :
                 /\ AdminCalls[i].method = "send_message"
                 /\ AdminCalls[i].photo = NoPhoto
                 /\ ~Contains(AdminCalls[i].text, <<ImageUrlLabel>>)
                 /\ ~Contains(AdminCalls[i].text, <<AdditionalInfoLabel>>)

(* ---------------------------------------------------------------------- *)
(* C8                                                                      *)
(* ---------------------------------------------------------------------- *)

\* C8: in STATE_IMAGE a text that is neither a skip keyword nor a URL is taken
\* as additional info: finalize_question notifies the admin by text alone
\* (send_message, no photo) and the text holds the Additional Info line with
\* the text of the message.
C8_FreeTextIsAdditionalInfo ==
    (last.handler = "handle_messages" /\ StateBefore = STATE_IMAGE
        /\ ~is_skip(lower(last.message.text)) /\ ~is_url(lower(last.message.text)))
        => /\ AdminCalls # <<>>
           /\ \A i \in 1..Len(AdminCalls) :
                 /\ AdminCalls[i].method = "send_message"
                 /\ AdminCalls[i].photo = NoPhoto
                 /\ Contains(AdminCalls[i].text,
                             <<AdditionalInfoLabel>> \o last.message.text)

(* ---------------------------------------------------------------------- *)
(* C9                                                                      *)
(* ---------------------------------------------------------------------- *)

\* C9: a run of start or of help_command makes exactly one call, its fixed
\* reply (the welcome with the sender's first name, the help text) sent to the
\* chat of the message, and leaves user_states and user_data, hence the session
\* of every user, as they were.
C9_StartHelpStateless ==
    [][last'.handler \in {"start", "help_command"}
          => /\ UNCHANGED <<user_states, user_data>>
             /\ Len(last'.calls) = 1
             /\ last'.calls[1].method = "send_message"
             /\ last'.calls[1].chat_id = last'.message.chat.id
             /\ last'.calls[1].text =
                    IF last'.handler = "start"
                    THEN welcome_message(last'.message.from_user)
                    ELSE help_text]_vars

\* start has run for a user whose session is in STATE_IMAGE, and the session
\* is still there.
C9_Witness ==
    /\ last.handler = "start"
    /\ StateBefore = STATE_IMAGE
    /\ Actor \in DOMAIN user_states
    /\ user_states[Actor] = STATE_IMAGE
    /\ user_data[Actor] = DataBefore

(* ---------------------------------------------------------------------- *)
(* C10                                                                     *)
(* ---------------------------------------------------------------------- *)

\* C10: a photo from a user whose session is in STATE_QUESTION or in
\* STATE_DESCRIPTION is answered by exactly one call, the corrective text sent
\* to the user's chat; the user's entries of user_states and user_data are what
\* they were, and nothing is sent to the admin.
C10_EarlyPhotoRejected ==
    (last.handler = "handle_photo" /\ StateBefore \in {STATE_QUESTION, STATE_DESCRIPTION})
        => /\ RepliedOnlyWith(NotExpectingImageText)
           /\ session(user_states, user_data, Actor) = last.before
           /\ AdminCalls = <<>>

\* A photo has arrived in STATE_DESCRIPTION, with the question stored.
C10_Witness ==
    /\ last.handler = "handle_photo"
    /\ StateBefore = STATE_DESCRIPTION
    /\ "question" \in DOMAIN DataBefore
    /\ user_states[Actor] = STATE_DESCRIPTION

(* ---------------------------------------------------------------------- *)
(* C11                                                                     *)
(* ---------------------------------------------------------------------- *)

\* C11 as the specification words it: a photo in any state other than
\* STATE_IMAGE, the user without a session included, is answered with the
\* text that no image was expected.
C11_RejectionInEveryOtherState ==
    (last.handler = "handle_photo" /\ StateBefore # STATE_IMAGE)
        => RepliedOnlyWith(NotExpectingImageText)

\* C11: a photo in a state other than STATE_IMAGE is never taken: the handler
\* makes exactly one call, a text to the user's chat, and nothing goes to the
\* admin.  The text says that no image was expected when the user has a
\* session (STATE_QUESTION, STATE_DESCRIPTION), and asks to use /sendspark
\* first when the user has none.
C11_PhotoOutsideImageState ==
    (last.handler = "handle_photo" /\ StateBefore # STATE_IMAGE)
        => /\ RepliedOnlyWith(IF "state" \in DOMAIN last.before
                              THEN NotExpectingImageText
                              ELSE UseSendsparkFirstText)
           /\ AdminCalls = <<>>

\* A photo has arrived in STATE_QUESTION and has been answered with the text
\* that no image was expected; another user has no session.
C11_Witness ==
    /\ last.handler = "handle_photo"
    /\ StateBefore = STATE_QUESTION
    /\ last.calls[1].text = NotExpectingImageText
    /\ \E u \in Users : NoSession(u)

(* ---------------------------------------------------------------------- *)
(* C12                                                                     *)
(* ---------------------------------------------------------------------- *)

\* The acting user's entry of user_states after the run; 0 when there is none
StateNow == Get(user_states, Actor, 0)

\* The moves of a session state that go one step forward: a session is created
\* in STATE_QUESTION, goes to STATE_DESCRIPTION, then to STATE_IMAGE, then ends;
\* or the state stays what it was.
ForwardMove(before, now) ==
    \/ now = before
    \/ before = 0 /\ now = STATE_QUESTION
    \/ before = STATE_QUESTION /\ now = STATE_DESCRIPTION
    \/ before = STATE_DESCRIPTION /\ now = STATE_IMAGE
    \/ before = STATE_IMAGE /\ now = 0

\* C12 as the specification words it: every handler run moves the user's
\* session state one step forward or leaves it, or is a cancel that removes it;
\* no run moves an existing session to an earlier state or skips a state.
C12_OnlyForwardOrCancel ==
    \/ ForwardMove(StateBefore, StateNow)
    \/ last.handler = "cancel" /\ StateNow = 0

\* C12: every handler run moves the user's session state one step forward or
\* leaves it, or is a cancel that removes it, or is a send_spark that puts it
\* back to STATE_QUESTION from whatever state it was in; a session is created
\* by send_spark only, and no run skips a state.
C12_ForwardCancelOrRestart ==
    /\ \/ ForwardMove(StateBefore, StateNow)
       \/ last.handler = "cancel" /\ StateNow = 0
       \/ last.handler = "send_spark" /\ StateNow = STATE_QUESTION
    /\ (StateBefore = 0 /\ StateNow # 0) => last.handler = "send_spark"

\* send_spark has put a session that was in STATE_DESCRIPTION back to
\* STATE_QUESTION.
C12_Witness ==
    /\ last.handler = "send_spark"
    /\ StateBefore = STATE_DESCRIPTION
    /\ StateNow = STATE_QUESTION

(* ---------------------------------------------------------------------- *)
(* C13                                                                     *)
(* ---------------------------------------------------------------------- *)

\* C13: every user whose entry of user_states is STATE_IMAGE has an entry of
\* user_data that holds a question and a description.
C13_ImageStateHasQuestionAndDescription ==
    \A u \in DOMAIN user_states :
        user_states[u] = STATE_IMAGE
            => /\ u \in DOMAIN user_data
               /\ {"question", "description"} \subseteq DOMAIN user_data[u]

\* A user is in STATE_IMAGE with question and description stored, still there
\* after a run of finalize_question that a raising call has ended.
C13_Witness ==
    /\ Finalizing
    /\ last.outcome = "ApiException"
    /\ Actor \in DOMAIN user_states
    /\ user_states[Actor] = STATE_IMAGE
    /\ {"question", "description"} \subseteq DOMAIN user_data[Actor]

(* ---------------------------------------------------------------------- *)
(* C14                                                                     *)
(* ---------------------------------------------------------------------- *)

\* C14: every entry of user_data holds at most one of image_id, image_url and
\* additional_info, also an entry that is still there after a run of
\* finalize_question that a raising call has ended.
C14_AtMostOneImageField ==
    \A u \in DOMAIN user_data :
        Cardinality(DOMAIN user_data[u]
                        \cap {"image_id", "image_url", "additional_info"}) <= 1

(* ---------------------------------------------------------------------- *)
(* C15                                                                     *)
(* ---------------------------------------------------------------------- *)

\* The calls in calls that returned
Delivered(calls) == SelectSeq(calls, LAMBDA c : c.ok)

\* The last run is the last step of a submission without image: a skip keyword
\* in STATE_IMAGE, with the question and the description stored and nothing else
PlainSubmission ==
    /\ last.handler = "handle_messages"
    /\ StateBefore = STATE_IMAGE
    /\ is_skip(lower(last.message.text))
    /\ DOMAIN DataBefore = {"question", "description"}

Reliable == [fetch |-> "status_200", api |-> [k \in 1..3 |-> TRUE]]

\* The dictionaries after the handler of message has run alone, from its first
\* statement to its end, on the dictionaries states and data
After(message, states, data) ==
    LET run == Run(states, data)
        ended == CASE handler_of(message) = "send_spark" -> send_spark(run, message, Reliable)
                   [] handler_of(message) = "cancel" -> cancel(run, message, Reliable)
                   [] handler_of(message) = "handle_messages" ->
                          handle_messages(run, message, Reliable)
    IN  [user_states |-> ended.user_states, user_data |-> ended.user_data,
         outcome |-> ended.outcome]

\* The dictionaries after the handlers of first and then of second have run
\* one after the other on the dictionaries the round began with
Serial(first, second) ==
    LET between == After(first, round.user_states, round.user_data)
        ended == After(second, between.user_states, between.user_data)
    IN  [user_states |-> ended.user_states, user_data |-> ended.user_data]

\* Two handlers were dispatched together and both have ended.
PairSettled ==
    \A w \in Workers : workers[w].handler # "none" /\ workers[w].pc = 0

\* One handler was dispatched alone and has ended.
OneSettled ==
    /\ workers[1].handler # "none"
    /\ workers[1].pc = 0
    /\ workers[2].handler = "none"

\* The dictionaries as a record
Store(states, data) == [user_states |-> states, user_data |-> data]

\* A handler that runs alone, statement by statement, ends as the same handler
\* run as one action ends: with the same dictionaries and the same outcome.
StepsAgreeWithHandlers ==
    OneSettled
        => LET alone == After(workers[1].message, round.user_states, round.user_data)
           IN  /\ workers[1].outcome = alone.outcome
               /\ Store(user_states, user_data)
                      = Store(alone.user_states, alone.user_data)

\* C16: when two handlers of one user have run concurrently and both have
\* ended, the dictionaries are what one of the two serial orders of the two
\* handlers leaves, and neither handler has ended in a KeyError, that is, has
\* read or deleted an entry that the other had deleted.
C16_PairsAreSerializable ==
    PairSettled
        => /\ \A w \in Workers : workers[w].outcome # "KeyError"
           /\ Store(user_states, user_data)
                  \in {Serial(workers[1].message, workers[2].message),
                       Serial(workers[2].message, workers[1].message)}

(* ---------------------------------------------------------------------- *)
(* C17                                                                     *)
(* ---------------------------------------------------------------------- *)

\* C17: a handler run on a message of one user leaves the entries of
\* user_states and user_data of every other user as they were (holding the
\* same state and the same fields, or still absent), whatever the other users'
\* sessions are and however the run ends.
C17_OtherUsersUntouched ==
    [][\A u \in Users \ {last'.message.from_user.id} :
          session(user_states', user_data', u) = session(user_states, user_data, u)]_vars

\* A run has ended a user's session while the other user has one with a
\* question stored.
C17_Witness ==
    /\ last.handler \in {"cancel", "handle_messages", "handle_photo"}
    /\ StateBefore # 0
    /\ NoSession(Actor)
    /\ \E u \in Users \ {Actor} :
          /\ u \in DOMAIN user_states
          /\ u \in DOMAIN user_data
          /\ "question" \in DOMAIN user_data[u]

(* ---------------------------------------------------------------------- *)
(* C18                                                                     *)
(* ---------------------------------------------------------------------- *)

\* The last run has called the user's chat with the confirmation at position i.
ConfirmedAt(i) ==
    /\ last.calls[i].chat_id = last.message.chat.id
    /\ last.calls[i].text = ConfirmationText

\* C18: in every run of finalize_question the calls to the admin chat come
\* first: the confirmation is the last call of the run and follows at least
\* one call to the admin, of which the last has returned; the user's session
\* is removed only in a run whose confirmation has been called and has
\* returned, hence never before the admin dispatch has been attempted; and a
\* run that a raising call has ended leaves the session in place.
C18_NotifyThenConfirmThenCleanup ==
    Finalizing
        => /\ \A i \in 1..Len(last.calls) :
                 IF ConfirmedAt(i)
                 THEN /\ i = Len(last.calls)
                      /\ i > 1
                      /\ last.calls[i - 1].chat_id = ADMIN_USER_ID
                      /\ last.calls[i - 1].ok
                 ELSE last.calls[i].chat_id = ADMIN_USER_ID
           /\ NoSession(Actor)
                 => /\ AdminCalls # <<>>
                    /\ ConfirmedAt(Len(last.calls))
                    /\ last.calls[Len(last.calls)].ok
           /\ last.outcome # "returned"
                 => session(user_states, user_data, Actor).state = STATE_IMAGE

\* finalize_question has notified the admin, then failed to send the
\* confirmation, and the session is still there.
C18_Witness ==
    /\ Finalizing
    /\ Len(last.calls) >= 2
    /\ ConfirmedAt(Len(last.calls))
    /\ ~last.calls[Len(last.calls)].ok
    /\ last.calls[Len(last.calls) - 1].chat_id = ADMIN_USER_ID
    /\ Actor \in DOMAIN user_states

(* ---------------------------------------------------------------------- *)
(* C19                                                                     *)
(* ---------------------------------------------------------------------- *)

\* The key that the last run has stored before it called finalize_question, as
\* a set: empty after a skip keyword
StoredByRun ==
    IF last.handler = "handle_photo" THEN {"image_id"}
    ELSE IF is_skip(lower(last.message.text)) THEN {}
    ELSE IF is_url(lower(last.message.text)) THEN {"image_url"}
    ELSE {"additional_info"}

\* The keys of user_data[user_id] that finalize_question finds in the last run
FieldsOfRun == DOMAIN DataBefore \cup StoredByRun

\* The image id that finalize_question finds in the last run
ImageIdOfRun ==
    IF last.handler = "handle_photo"
    THEN last.message.photo[Len(last.message.photo)].file_id
    ELSE DataBefore["image_id"]

\* The call is a send_message without photo whose text holds the Image URL line.
TextWithUrl(call) ==
    /\ call.method = "send_message"
    /\ call.photo = NoPhoto
    /\ Contains(call.text, <<ImageUrlLabel>> \o UrlOfRun)

\* C19: the fields that finalize_question finds decide how it notifies the
\* admin.  With an image id: one call, send_photo of that id with the
\* notification as caption, and no download.  Else with an image URL: a
\* download; then on status 200 send_photo of the downloaded bytes, otherwise
\* send_message, text and caption holding the Image URL line; a second call to
\* the admin is made only after a first that raised and is the text with the
\* URL line.  Else: one call, send_message without photo and without URL line,
\* and no download.  A photo in STATE_IMAGE always gives a send_photo of the
\* file id of its largest size.
C19_DispatchByStoredFields ==
    Finalizing
        => /\ AdminCalls # <<>>
           /\ AdminCalls[1] = last.calls[1]
           /\ Contains(AdminCalls[1].text,
                       admin_message_text(last.message.from_user,
                                          DataBefore["question"],
                                          DataBefore["description"]))
           /\ IF "image_id" \in FieldsOfRun
              THEN /\ Len(AdminCalls) = 1
                   /\ AdminCalls[1].method = "send_photo"
                   /\ AdminCalls[1].photo = ByFileId(ImageIdOfRun)
                   /\ last.fetch = "none"
              ELSE IF "image_url" \in FieldsOfRun
              THEN /\ last.fetch # "none"
                   /\ IF last.fetch = "status_200"
                      THEN /\ AdminCalls[1].method = "send_photo"
                           /\ AdminCalls[1].photo = ByContent(UrlOfRun)
                           /\ Contains(AdminCalls[1].text, <<ImageUrlLabel>> \o UrlOfRun)
                      ELSE TextWithUrl(AdminCalls[1])
                   /\ Len(AdminCalls) <= 2
                   /\ Len(AdminCalls) = 2
                         => /\ ~AdminCalls[1].ok
                            /\ last.fetch # "raises"
                            /\ TextWithUrl(AdminCalls[2])
              ELSE /\ Len(AdminCalls) = 1
                   /\ AdminCalls[1].method = "send_message"
                   /\ AdminCalls[1].photo = NoPhoto
                   /\ ~Contains(AdminCalls[1].text, <<ImageUrlLabel>>)
                   /\ last.fetch = "none"
           /\ last.handler = "handle_photo"
                 => /\ AdminCalls[1].method = "send_photo"
                    /\ AdminCalls[1].photo = ByFileId(<<"photo-large">>)

\* A photo has arrived in a session that already held an image URL, and the
\* admin has got the photo by its file id.
C19_Witness ==
    /\ last.handler = "handle_photo"
    /\ StateBefore = STATE_IMAGE
    /\ "image_url" \in DOMAIN DataBefore
    /\ AdminCalls[1].method = "send_photo"
    /\ AdminCalls[1].photo.by = "file_id"
    /\ AdminCalls[1].ok

(* ---------------------------------------------------------------------- *)
(* C20                                                                     *)
(* ---------------------------------------------------------------------- *)

====
